---- MODULE Spec2Model ----
(***************************************************************************)
(* PTY-backed subprocess lifecycle of ConnectBot's native layer:           *)
(*   com_google_ase_Exec.cpp   create_subprocess / createSubprocess,       *)
(*                             setPtyWindowSize, waitFor                   *)
(*   org_mosh_MoshClient.cpp   create_mosh_client / forkExec,              *)
(*                             setPtyWindowSize, waitFor, kill             *)
(* The state is the calling process's descriptor table, the kernel's PTY   *)
(* and process tables, libc's static ptsname buffer, the native frames of  *)
(* the calling threads, and the values handed back across JNI.             *)
(***************************************************************************)
EXTENDS Integers, Sequences, FiniteSets, TLC

VARIABLES fdt, ptys, ptsnameBuf, procs, th, hist, ncalls, ev

vars == <<fdt, ptys, ptsnameBuf, procs, th, hist, ncalls, ev>>

\* ------------------------------------------------------------------ bounds
\* spawn calls (createSubprocess / forkExec) made in one run
MaxSpawns == 2
\* size of a process's descriptor table (RLIMIT_NOFILE)
MaxFd == 6
\* number of pseudo-terminal indices of the devpts instance
MaxPty == 2
\* size of the kernel's pid space for children
MaxPid == 2

Threads == {"t1", "t2"}
Kinds == {"Exec", "Mosh"}
Fds == 0 .. (MaxFd - 1)
StdFds == {0, 1, 2}
Ptys == 0 .. (MaxPty - 1)
Pids == 1 .. MaxPid
\* exit codes the spawned command itself may pass to exit()
ProgramExitCodes == {0, 3}
\* SIGKILL
Signals == {9}
\* what an uninitialised int on the native stack may hold
StackGarbage == {-1, 1}
\* what an uninitialised wait status may hold: exited 0, exited 3
StatusGarbage == {0, 768}
\* ws_row values passed to setPtyWindowSize
RowValues == {24}
\* descriptors a caller may pass to setPtyWindowSize (-1: an invalid handle)
ResizeFds == {-1} \cup (Fds \ StdFds)

\* ------------------------------------------------------- descriptor tables
\* idx: which successful spawn (its index in hist) handed the descriptor to
\* the caller as its handle; 0 while no spawn has
NoFd == [t |-> "free", pty |-> -1, cloexec |-> FALSE, idx |-> 0]
StdFd == [t |-> "std", pty |-> -1, cloexec |-> FALSE, idx |-> 0]
\* the master side of PTY k
Master(k) == [t |-> "ptm", pty |-> k, cloexec |-> FALSE, idx |-> 0]
\* the slave side of PTY k
Slave(k) == [t |-> "pts", pty |-> k, cloexec |-> FALSE, idx |-> 0]

ClosedTable == [fd \in Fds |-> NoFd]
InitTable == [fd \in Fds |-> IF fd \in StdFds THEN StdFd ELSE NoFd]

FreeFds(tab) == {fd \in Fds : tab[fd].t = "free"}
Lowest(S) == CHOOSE x \in S : \A y \in S : x <= y

\* ------------------------------------------------------------ process table
NoTerm == [how |-> "none", n |-> 0]
\* ptm, devname: the child's copies of the locals of the spawn function;
\* mpty: the PTY whose master the spawn call opened; idx: the index in hist of
\* what the parent branch of that call handed to its caller; log: the
\* instructions the child has executed.
FreeProc == [state |-> "free", kind |-> "none", pc |-> 0, image |-> FALSE,
             sid |-> 0, ptm |-> -1, pts |-> -1, devname |-> -1, mpty |-> -1,
             fds |-> ClosedTable, term |-> NoTerm, cause |-> "none", log |-> <<>>,
             idx |-> 0]

FreePids == {p \in Pids : procs[p].state = "free"}
Running(p) == procs[p].state = "running"

\* PTY k has an open master / any open descriptor, in the caller or in a live child
MasterOpen(k) ==
    \/ \E fd \in Fds : fdt[fd].t = "ptm" /\ fdt[fd].pty = k
    \/ \E p \in Pids, fd \in Fds : procs[p].fds[fd].t = "ptm" /\ procs[p].fds[fd].pty = k
PtyInUse(k) ==
    \/ \E fd \in Fds : fdt[fd].pty = k
    \/ \E p \in Pids, fd \in Fds : procs[p].fds[fd].pty = k
FreePtys == {k \in Ptys : ~PtyInUse(k)}

\* ------------------------------------------------------------ thread frames
IdleFrame == [pc |-> "idle", kind |-> "none", ptm |-> -1, devname |-> -1, pid |-> 0]

\* What the step just taken handed back to its JNI caller (NoEvent: the step
\* was no return of a JNI call). ret: the value returned (the handle, for a
\* spawn); pid: the process id returned by a spawn or passed to waitFor or
\* kill; fd: the descriptor passed to setPtyWindowSize; collected, how, n,
\* cause, idx: for a waitFor that reaped a child, how that child ended and
\* which spawn had made it.
NoEvent == [op |-> "none", ret |-> 0, pid |-> 0, fd |-> -1, hasret |-> TRUE, threw |-> FALSE,
            ioctl |-> 0, collected |-> FALSE, how |-> "none", n |-> 0, cause |-> "none",
            idx |-> 0]

Init ==
    /\ fdt = InitTable
    /\ ptys = [k \in Ptys |-> [locked |-> TRUE, rows |-> 0]]
    /\ ptsnameBuf = -1
    /\ procs = [p \in Pids |-> FreeProc]
    /\ th = [t \in Threads |-> IdleFrame]
    /\ hist = <<>>
    /\ ncalls = 0
    /\ ev = NoEvent

\* ------------------------------------------------------------------ spawn
\* What the caller receives when the spawn function gives up: the handle is
\* -1; the process id is whatever the never-assigned local procId holds (a
\* value of StackGarbage, drawn where the function returns).
FailReturn(kind, procId) == [fd |-> -1, pid |-> procId]

\* (a slip: the parent branch stores something other than fork's value)
ParentReturn_pid0(kind, ptm, pid) == [fd |-> ptm, pid |-> 0]

\* What the caller receives from the parent branch after fork.
ParentReturn(kind, ptm, pid) == [fd |-> ptm, pid |-> pid]

\* createSubprocess / forkExec wrap the pair in a FileDescriptor and an int
\* array slot / a Pair<FileDescriptor, Long>.
SpawnEvent(r) == [NoEvent EXCEPT !.op = "spawn", !.ret = r.fd, !.pid = r.pid]

\* open("/dev/ptmx", O_RDWR); fcntl(ptm, F_SETFD, FD_CLOEXEC). The open
\* fails when the table or the PTY indices are used up, or when the kernel
\* refuses it; the function then returns.
SpawnOpen(t, kind) ==
    /\ th[t].pc = "idle"
    /\ ncalls < MaxSpawns
    /\ ncalls' = ncalls + 1
    /\ \/ /\ FreeFds(fdt) # {}
          /\ FreePtys # {}
          /\ LET fd == Lowest(FreeFds(fdt))
                 k == Lowest(FreePtys)
             IN /\ fdt' = [fdt EXCEPT ![fd] = [Master(k) EXCEPT !.cloexec = TRUE]]
                /\ ptys' = [ptys EXCEPT ![k] = [locked |-> TRUE, rows |-> 0]]
                /\ th' = [th EXCEPT ![t] = [IdleFrame EXCEPT !.pc = "unlock", !.kind = kind,
                                                             !.ptm = fd]]
                /\ ev' = NoEvent
       \/ /\ \E g \in StackGarbage : ev' = SpawnEvent(FailReturn(kind, g))
          /\ UNCHANGED <<fdt, ptys, th>>
    /\ UNCHANGED <<ptsnameBuf, procs, hist>>

\* The slave name the child will open. create_subprocess keeps only the
\* pointer ptsname() returned, which addresses libc's static buffer, so the
\* name is whatever that buffer holds when fork copies the address space;
\* create_mosh_client had ptsname_r fill its own stack array.
DevnameAtFork(kind, localname, staticbuf) ==
    IF kind = "Exec" THEN staticbuf ELSE localname

\* Exec: grantpt(ptm) || unlockpt(ptm) || (devname = ptsname(ptm)) == 0
\* Mosh: unlockpt(ptm) || ptsname_r(ptm, devname, sizeof(devname))
\* Either may fail; the function then returns with ptm left as it is.
SpawnUnlock(t) ==
    /\ th[t].pc = "unlock"
    /\ LET f == th[t]
           k == fdt[f.ptm].pty
       IN \/ /\ ptys' = [ptys EXCEPT ![k].locked = FALSE]
             /\ IF f.kind = "Exec"
                THEN /\ ptsnameBuf' = k
                     /\ th' = [th EXCEPT ![t].pc = "fork"]
                ELSE /\ ptsnameBuf' = ptsnameBuf
                     /\ th' = [th EXCEPT ![t].pc = "fork", ![t].devname = k]
             /\ ev' = NoEvent
          \/ /\ \E g \in StackGarbage : ev' = SpawnEvent(FailReturn(f.kind, g))
             /\ th' = [th EXCEPT ![t] = IdleFrame]
             /\ UNCHANGED <<ptys, ptsnameBuf>>
    /\ UNCHANGED <<fdt, procs, hist, ncalls>>

\* (a slip: the branch does not end in exit)
ChildProgram_noexit(kind) ==
    IF kind = "Exec"
    THEN <<"setsid", "open_pts", "if_neg_exit", "dup2_0", "dup2_1", "dup2_2",
           "close_ptm", "execl">>
    ELSE <<"prctl", "setsid", "open_pts", "if_neg_exit", "dup2_0", "dup2_1", "dup2_2",
           "close_ptm", "mosh_client_main">>

\* (a slip: the child keeps its copy of the master)
ChildProgram_noclose(kind) ==
    IF kind = "Exec"
    THEN <<"setsid", "open_pts", "if_neg_exit", "dup2_0", "dup2_1", "dup2_2",
           "execl", "exit_m1">>
    ELSE <<"prctl", "setsid", "open_pts", "if_neg_exit", "dup2_0", "dup2_1", "dup2_2",
           "mosh_client_main", "_exit_1">>

\* The instructions of the child branch (pid == 0), in program order.
ChildProgram(kind) ==
    IF kind = "Exec"
    THEN <<"setsid", "open_pts", "if_neg_exit", "dup2_0", "dup2_1", "dup2_2",
           "close_ptm", "execl", "exit_m1">>
    ELSE <<"prctl", "setsid", "open_pts", "if_neg_exit", "dup2_0", "dup2_1", "dup2_2",
           "close_ptm", "mosh_client_main", "_exit_1">>

\* The pids fork may hand out: any free pid a child has had before, or a pid
\* no child has had. Pids that were never used differ in nothing but their
\* number, so the lowest stands for all of them.
UsedPids == {hist[i].pid : i \in 1 .. Len(hist)}
ForkPids ==
    LET old == FreePids \cap UsedPids
        new == FreePids \ UsedPids
    IN IF new = {} THEN old ELSE old \cup {Lowest(new)}

\* pid = fork(); the parent branch stores the pid and the master and returns.
SpawnFork(t) ==
    /\ th[t].pc = "fork"
    /\ LET f == th[t]
       IN \/ \E pid \in ForkPids :
                LET r == ParentReturn(f.kind, f.ptm, pid)
                IN /\ procs' = [procs EXCEPT ![pid] =
                          [FreeProc EXCEPT !.state = "running", !.kind = f.kind, !.pc = 1,
                                           !.ptm = f.ptm, !.mpty = fdt[f.ptm].pty,
                                           !.devname = DevnameAtFork(f.kind, f.devname, ptsnameBuf),
                                           !.fds = [fd \in Fds |-> [fdt[fd] EXCEPT !.idx = 0]],
                                           !.idx = Len(hist) + 1]]
                   /\ ev' = SpawnEvent(r)
                   /\ hist' = Append(hist, r)
                   /\ fdt' = [fdt EXCEPT ![f.ptm].idx = Len(hist) + 1]
          \/ /\ \E g \in StackGarbage : ev' = SpawnEvent(FailReturn(f.kind, g))
             /\ UNCHANGED <<procs, fdt, hist>>
    /\ th' = [th EXCEPT ![t] = IdleFrame]
    /\ UNCHANGED <<ptys, ptsnameBuf, ncalls>>

\* ------------------------------------------------------------------ child
Instr(p) == ChildProgram(procs[p].kind)[procs[p].pc]
InProgram(p) ==
    /\ Running(p)
    /\ ~procs[p].image
    /\ procs[p].pc \in 1 .. Len(ChildProgram(procs[p].kind))

\* exit(code) / _exit(code): the kernel keeps the low 8 bits, closes every
\* descriptor, and leaves a zombie for the parent to reap: of the process
\* only its wait status remains.
Exited(c, code, cause) ==
    [FreeProc EXCEPT !.state = "zombie", !.kind = c.kind, !.idx = c.idx,
                     !.term = [how |-> "exit", n |-> code % 256], !.cause = cause]

\* a fatal signal
Signalled(c, sig) ==
    [FreeProc EXCEPT !.state = "zombie", !.kind = c.kind, !.idx = c.idx,
                     !.term = [how |-> "signal", n |-> sig], !.cause = "signal"]

\* open(devname, O_RDWR) in the child: the slave of PTY k can be opened when
\* its master is open and unlocked and the table has a free slot (and the
\* kernel does not refuse for a reason of its own: see ChildStep).
CanOpenSlave(c) ==
    /\ c.devname \in Ptys
    /\ MasterOpen(c.devname)
    /\ ~ptys[c.devname].locked
    /\ FreeFds(c.fds) # {}

\* dup2(pts, n): fails on a bad pts, else n refers to the slave
Dup2(c, n) ==
    IF c.pts \in Fds /\ c.fds[c.pts].t # "free"
    THEN [c EXCEPT !.fds[n] = [c.fds[c.pts] EXCEPT !.cloexec = FALSE]]
    ELSE c

\* (a slip: the failure paths exit with status 0)
ExitCode_zero(ins) == 0

\* exit(-1) after a failed open or a failed execl; _exit(1) after
\* mosh_client_main returns
ExitCode(ins) == IF ins = "_exit_1" THEN 1 ELSE -1

\* The effect of one non-blocking instruction on the child's own state;
\* openok: the kernel grants an open that can be granted.
Execute(c, p, ins, openok) ==
    LET d == [c EXCEPT !.pc = c.pc + 1, !.log = Append(c.log, ins)]
    IN CASE ins = "prctl" -> d
         [] ins = "setsid" -> [d EXCEPT !.sid = p]
         [] ins = "open_pts" ->
              IF CanOpenSlave(c) /\ openok
              THEN LET fd == Lowest(FreeFds(c.fds))
                   IN [d EXCEPT !.pts = fd, !.fds[fd] = Slave(c.devname)]
              ELSE [d EXCEPT !.pts = -1]
         [] ins = "if_neg_exit" ->
              IF c.pts < 0 THEN Exited(d, ExitCode("exit_m1"), "open_failed") ELSE d
         [] ins = "dup2_0" -> Dup2(d, 0)
         [] ins = "dup2_1" -> Dup2(d, 1)
         [] ins = "dup2_2" -> Dup2(d, 2)
         [] ins = "close_ptm" -> [d EXCEPT !.fds[c.ptm] = NoFd]
         [] ins = "exit_m1" -> Exited(d, ExitCode(ins), c.cause)
         [] ins = "_exit_1" -> Exited(d, ExitCode(ins), c.cause)
         [] OTHER -> d

\* Instructions whose effect another process can observe, or that read the
\* kernel's PTY table; the others touch only the child's own state.
Visible == {"open_pts", "close_ptm", "execl", "mosh_client_main", "exit_m1", "_exit_1"}

\* Run the child from its pc up to and including its next visible
\* instruction (or its exit, or the end of the branch).
RECURSIVE RunBlock(_, _, _)
RunBlock(c, p, openok) ==
    LET prog == ChildProgram(c.kind)
    IN IF c.state # "running" \/ c.pc > Len(prog) \/ prog[c.pc] \in {"execl", "mosh_client_main"}
       THEN c
       ELSE IF prog[c.pc] \in Visible
            THEN Execute(c, p, prog[c.pc], openok)
            ELSE RunBlock(Execute(c, p, prog[c.pc], openok), p, openok)

ChildStep(p) ==
    /\ InProgram(p)
    /\ Instr(p) \notin {"execl", "mosh_client_main"}
    /\ \E openok \in BOOLEAN : procs' = [procs EXCEPT ![p] = RunBlock(procs[p], p, openok)]
    /\ UNCHANGED <<fdt, ptys, ptsnameBuf, th, hist, ncalls>>
    /\ ev' = NoEvent

\* execl(cmd, cmd, arg0, arg1, NULL): on success the image is replaced and
\* the close-on-exec descriptors are closed; on failure it returns.
ChildExecl(p) ==
    /\ InProgram(p)
    /\ Instr(p) = "execl"
    /\ LET c == [procs[p] EXCEPT !.log = Append(procs[p].log, "execl")]
       IN \/ procs' = [procs EXCEPT ![p] =
                 [c EXCEPT !.image = TRUE,
                           !.fds = [fd \in Fds |-> IF c.fds[fd].cloexec THEN NoFd ELSE c.fds[fd]]]]
          \/ procs' = [procs EXCEPT ![p] = [c EXCEPT !.pc = c.pc + 1, !.cause = "exec_failed"]]
    /\ UNCHANGED <<fdt, ptys, ptsnameBuf, th, hist, ncalls>>
    /\ ev' = NoEvent

\* mosh_client_main(argc, argv) in the forked child: it either returns to
\* the branch or ends the process itself with exit(n).
ChildMoshMain(p) ==
    /\ InProgram(p)
    /\ Instr(p) = "mosh_client_main"
    /\ LET c == [procs[p] EXCEPT !.log = Append(procs[p].log, "mosh_client_main")]
       IN \/ procs' = [procs EXCEPT ![p] = [c EXCEPT !.pc = c.pc + 1, !.cause = "main_returned"]]
          \/ \E n \in ProgramExitCodes :
                procs' = [procs EXCEPT ![p] = Exited(c, n, "program_exit")]
    /\ UNCHANGED <<fdt, ptys, ptsnameBuf, th, hist, ncalls>>
    /\ ev' = NoEvent

\* the exec'd command ends with exit(n)
ProgramExit(p) ==
    /\ Running(p)
    /\ procs[p].image
    /\ \E n \in ProgramExitCodes :
          procs' = [procs EXCEPT ![p] = Exited(procs[p], n, "program_exit")]
    /\ UNCHANGED <<fdt, ptys, ptsnameBuf, th, hist, ncalls>>
    /\ ev' = NoEvent

\* --------------------------------------------------------------- waitFor
\* the wait status word the kernel hands to waitpid
StatusWord(term) == IF term.how = "exit" THEN term.n * 256 ELSE term.n

WIFEXITED(status) == status % 128 = 0
WEXITSTATUS(status) == (status \div 256) % 256

\* (a slip: the status word is returned undecoded)
WaitForResult_raw(status) == status

\* int result = 0; if (WIFEXITED(status)) result = WEXITSTATUS(status);
WaitForResult(status) == IF WIFEXITED(status) THEN WEXITSTATUS(status) ELSE 0

\* (a slip: WNOHANG passed as the options)
WaitOptions_WNOHANG == 0 + 1

\* the options argument of waitpid(procId, &status, 0)
WaitOptions == 0

\* waitpid with options 0 returns only once the child has changed state
\* (or is no child of the caller); with WNOHANG (1) it returns at once.
\* An interruption of the call by a signal handler (EINTR) is not modelled.
WaitpidReturns(options, state) == state # "running" \/ options = 1

WaitEvent(p, ret, c, collected) ==
    [NoEvent EXCEPT !.op = "waitFor", !.ret = ret, !.pid = p, !.collected = collected,
                    !.how = c.term.how, !.n = c.term.n, !.cause = c.cause,
                    !.idx = c.idx]

\* waitFor(procId) is entered. A pid that is no child of the caller makes
\* waitpid fail at once (ECHILD) with status never written; the unchecked
\* status then decides the result. A caller waits for a pid from one thread
\* at a time.
WaitCall(t, p) ==
    /\ th[t].pc = "idle"
    /\ \A u \in Threads : ~(th[u].pc = "waitpid" /\ th[u].pid = p)
    /\ IF procs[p].state = "free"
       THEN /\ \E s \in StatusGarbage : ev' = WaitEvent(p, WaitForResult(s), FreeProc, FALSE)
            /\ th' = th
       ELSE /\ th' = [th EXCEPT ![t].pc = "waitpid", ![t].pid = p]
            /\ ev' = NoEvent
    /\ UNCHANGED <<fdt, ptys, ptsnameBuf, procs, hist, ncalls>>

\* waitpid returns and waitFor hands its result back.
WaitReturn(t) ==
    /\ th[t].pc = "waitpid"
    /\ LET p == th[t].pid
       IN /\ WaitpidReturns(WaitOptions, procs[p].state)
          /\ IF procs[p].state = "zombie"
             THEN /\ ev' = WaitEvent(p, WaitForResult(StatusWord(procs[p].term)), procs[p], TRUE)
                  /\ procs' = [procs EXCEPT ![p] = FreeProc]
             ELSE /\ \E s \in StatusGarbage :
                        ev' = WaitEvent(p, WaitForResult(s), FreeProc, FALSE)
                  /\ procs' = procs
    /\ th' = [th EXCEPT ![t] = IdleFrame]
    /\ UNCHANGED <<fdt, ptys, ptsnameBuf, hist, ncalls>>

\* ------------------------------------------------------------------ kill
\* return kill(pid, signal);
Kill(t, p, sig) ==
    /\ th[t].pc = "idle"
    /\ ev' = [NoEvent EXCEPT !.op = "kill", !.pid = p, !.ret = IF procs[p].state = "free" THEN -1 ELSE 0]
    /\ procs' = IF Running(p) THEN [procs EXCEPT ![p] = Signalled(procs[p], sig)] ELSE procs
    /\ UNCHANGED <<fdt, ptys, ptsnameBuf, th, hist, ncalls>>

\* ------------------------------------------------------ setPtyWindowSize
\* ioctl(fd, TIOCSWINSZ, &sz): 0 on the master of a PTY, -1 on anything else
IoctlOk(fd) == fd \in Fds /\ fdt[fd].t = "ptm"

\* (a slip: a failed ioctl raises an exception)
ResizeOutcome_throws(ioctlret) == [hasret |-> FALSE, ret |-> 0, threw |-> ioctlret < 0]

\* What setPtyWindowSize gives its caller after the ioctl: the function is
\* void, ignores ioctl's value and throws nothing.
ResizeOutcome(ioctlret) == [hasret |-> FALSE, ret |-> 0, threw |-> FALSE]

SetPtyWindowSize(t, fd, rows) ==
    /\ th[t].pc = "idle"
    /\ LET r == IF IoctlOk(fd) THEN 0 ELSE -1
           o == ResizeOutcome(r)
       IN /\ ptys' = IF r = 0 THEN [ptys EXCEPT ![fdt[fd].pty].rows = rows] ELSE ptys
          /\ ev' = [NoEvent EXCEPT !.op = "setPtyWindowSize", !.fd = fd, !.ioctl = r,
                                   !.ret = o.ret, !.hasret = o.hasret, !.threw = o.threw]
    /\ UNCHANGED <<fdt, ptsnameBuf, procs, th, hist, ncalls>>

\* ----------------------------------------------------------------- caller
\* The caller owns a returned master and may close it.
CallerClose(t, fd) ==
    /\ th[t].pc = "idle"
    /\ fdt[fd].t = "ptm"
    /\ fdt[fd].idx > 0
    /\ fdt' = [fdt EXCEPT ![fd] = NoFd]
    /\ UNCHANGED <<ptys, ptsnameBuf, procs, th, hist, ncalls>>
    /\ ev' = NoEvent

\* ------------------------------------------------------- specifications
\* the spawn functions and the children they fork, called from the threads T
SpawnNext(T) ==
    \/ \E t \in T, kind \in Kinds : SpawnOpen(t, kind)
    \/ \E t \in T : SpawnUnlock(t)
    \/ \E t \in T : SpawnFork(t)

ChildNext ==
    \/ \E p \in Pids : ChildStep(p)
    \/ \E p \in Pids : ChildExecl(p)
    \/ \E p \in Pids : ChildMoshMain(p)
    \/ \E p \in Pids : ProgramExit(p)

WaitNext(T) ==
    \/ \E t \in T, p \in Pids : WaitCall(t, p)
    \/ \E t \in T : WaitReturn(t)
    \/ \E t \in T, p \in Pids, sig \in Signals : Kill(t, p, sig)

HandleNext(T) ==
    \/ \E t \in T, fd \in ResizeFds, rows \in RowValues : SetPtyWindowSize(t, fd, rows)
    \/ \E t \in T, fd \in Fds : CallerClose(t, fd)

\* a caller that uses the library from one thread
Callers == {"t1"}

\* every operation, from every thread
Next == SpawnNext(Threads) \/ ChildNext \/ WaitNext(Threads) \/ HandleNext(Threads)
Spec == Init /\ [][Next]_vars

\* spawn calls racing on several threads, and their children
SpawnSpec == Init /\ [][SpawnNext(Threads) \/ ChildNext]_vars

\* the life of the children of one caller: spawn, terminate, waitFor
LifeNext == SpawnNext(Callers) \/ ChildNext \/ WaitNext(Callers)
LifeSpec == Init /\ [][LifeNext]_vars
\* waitpid returns once it can: the kernel wakes the waiting thread
FairLifeSpec == LifeSpec /\ \A t \in Callers : WF_vars(WaitReturn(t))

\* the handles of one caller: spawn, resize, close
HandleSpec == Init /\ [][SpawnNext(Callers) \/ HandleNext(Callers)]_vars

\* ----------------------------------------------------------------- claims
\* the ways the child branch itself ends the child
Failures == {"open_failed", "exec_failed", "main_returned"}

\* the child of the i-th successful spawn has not been reaped
Unreaped(i) == \E p \in Pids : procs[p].state # "free" /\ procs[p].idx = i
\* the handle of the i-th successful spawn is still open in the caller
HandleOpen(i) == \E fd \in Fds : fdt[fd].t = "ptm" /\ fdt[fd].idx = i

\* C1: a spawn that succeeds hands its caller one new master handle (>= 0)
\* and the pid of the one new child; a spawn that fails hands back a sentinel
\* for both the handle and the process id.
C1_SpawnResultPaired ==
    ev.op = "spawn" =>
        IF ev.ret >= 0
        THEN /\ ev.ret \in Fds
             /\ fdt[ev.ret].t = "ptm"
             /\ fdt[ev.ret].idx = Len(hist)
             /\ hist[Len(hist)] = [fd |-> ev.ret, pid |-> ev.pid]
             /\ ev.pid \in Pids
             /\ procs[ev.pid].state = "running"
             /\ procs[ev.pid].idx = Len(hist)
        ELSE ev.ret = -1 /\ ev.pid < 0

\* C2: a child inside the branch is always at an instruction of the branch
\* (it never runs past its end into the code of the parent), and once a
\* failure has happened its next instruction is an exit.
C2_ChildNeverReturns ==
    \A p \in Pids : (Running(p) /\ ~procs[p].image) =>
        /\ procs[p].pc \in 1 .. Len(ChildProgram(procs[p].kind))
        /\ procs[p].cause \in Failures => Instr(p) \in {"exit_m1", "_exit_1"}

\* a child whose execl failed has ended as a zombie
C2_Witness == \E p \in Pids : procs[p].state = "zombie" /\ procs[p].cause = "exec_failed"

\* C3: a waitFor that reaps a child returns the child's exit code when the
\* child exited, and 0 when a signal killed it.
C3_WaitForResult ==
    (ev.op = "waitFor" /\ ev.collected) =>
        /\ ev.how = "exit" => ev.ret = ev.n
        /\ ev.how = "signal" => ev.ret = 0

\* waitFor has returned 3 for a child that exited with 3
C3_Witness == ev.op = "waitFor" /\ ev.collected /\ ev.how = "exit" /\ ev.n = 3 /\ ev.ret = 3

\* C4: no waitFor returns while the process it waits for is running, and a
\* waitFor whose process has terminated returns eventually.
C4_WaitForBlocks ==
    /\ [][ev'.op = "waitFor" => procs[ev'.pid].state # "running"]_vars
    /\ \A t \in Callers :
          (th[t].pc = "waitpid" /\ procs[th[t].pid].state # "running") ~> (th[t].pc = "idle")

\* a thread is blocked in waitFor on a running child
C4_Witness == \E t \in Callers : th[t].pc = "waitpid" /\ Running(th[t].pid)

\* C5: when the child could not open the slave, could not exec, or came back
\* from the client main, its spawn had handed the parent a valid handle and
\* the child's pid, the child's exit changes nothing of the parent, and the
\* waitFor that reaps the child returns the branch's non-zero exit status.
C5_FailureSeenByWaitFor ==
    /\ [](ev.op = "waitFor" /\ ev.collected /\ ev.cause \in Failures =>
            /\ ev.ret = IF ev.cause = "main_returned" THEN 1 ELSE 255
            /\ ev.idx \in 1 .. Len(hist)
            /\ hist[ev.idx].fd >= 0
            /\ hist[ev.idx].pid = ev.pid)
    /\ [][\A p \in Pids :
            (procs[p].state = "running" /\ procs'[p].state = "zombie"
                /\ procs'[p].cause \in Failures)
            => UNCHANGED <<fdt, ptys, ptsnameBuf, th, hist, ncalls>>]_vars

\* waitFor has reaped a child that could not open its slave device
C5_Witness == ev.op = "waitFor" /\ ev.collected /\ ev.cause = "open_failed" /\ ev.ret = 255

\* C6 as claimed: a resize whose ioctl failed hands its caller a failure
\* indicator and raises nothing.
C6_ResizeReportsFailure ==
    (ev.op = "setPtyWindowSize" /\ ev.ioctl = -1) => (ev.hasret /\ ev.ret # 0 /\ ~ev.threw)

\* C6 as amended: a resize whose ioctl failed hands its caller nothing,
\* raises nothing, and changes no descriptor, PTY, process or thread.
C6_ResizeSilent ==
    /\ []((ev.op = "setPtyWindowSize" /\ ev.ioctl = -1) => (~ev.hasret /\ ~ev.threw))
    /\ [][(ev'.op = "setPtyWindowSize" /\ ev'.ioctl = -1)
            => UNCHANGED <<fdt, ptys, ptsnameBuf, procs, th, hist, ncalls>>]_vars

\* a resize on a handle that a spawn returned and the caller has closed
C6_Witness ==
    /\ ev.op = "setPtyWindowSize"
    /\ ev.ioctl = -1
    /\ ev.fd \in Fds
    /\ fdt[ev.fd].t = "free"
    /\ \E i \in 1 .. Len(hist) : hist[i].fd = ev.fd

\* C7 as amended: two successful spawns whose children are both unreaped
\* were handed different process ids, and two whose handles are both open
\* were handed different handles.
C7_OverlappingSpawnsDistinct ==
    \A i, j \in 1 .. Len(hist) : i < j =>
        /\ (Unreaped(i) /\ Unreaped(j)) => hist[i].pid # hist[j].pid
        /\ (HandleOpen(i) /\ HandleOpen(j)) => hist[i].fd # hist[j].fd

\* C7 as claimed: moreover no two successful spawns are ever handed the
\* same process id, also when the earlier child has been reaped.
C7_PidsNeverShared ==
    /\ C7_OverlappingSpawnsDistinct
    /\ \A i, j \in 1 .. Len(hist) : i < j => hist[i].pid # hist[j].pid

\* two successful spawns with both children unreaped and both handles open
C7_Witness ==
    /\ Len(hist) = 2
    /\ Unreaped(1) /\ Unreaped(2)
    /\ HandleOpen(1) /\ HandleOpen(2)

\* the instructions C8 orders
IsPrologue(ins) ==
    ins \in {"setsid", "open_pts", "dup2_0", "dup2_1", "dup2_2", "close_ptm"}
\* the child has reached the replacement of its image (execl, or the call of
\* the client main)
AtStep5(p) ==
    Running(p) /\ (procs[p].image \/ Instr(p) \in {"execl", "mosh_client_main"})

\* C8: a child that has reached the replacement of its image has executed
\* setsid, the open of the slave, the three dup2 and the close of the master,
\* in this order; it leads its own session, its descriptors 0, 1, 2 are the
\* slave it opened, and it holds no copy of the master.
C8_ChildPrologueOrder ==
    \A p \in Pids : AtStep5(p) =>
        LET c == procs[p]
        IN /\ SelectSeq(c.log, IsPrologue)
                = <<"setsid", "open_pts", "dup2_0", "dup2_1", "dup2_2", "close_ptm">>
           /\ c.sid = p
           /\ c.pts \in Fds
           /\ c.fds[c.pts].t = "pts"
           /\ \A n \in StdFds : c.fds[n] = c.fds[c.pts]
           /\ \A fd \in Fds : ~(c.fds[fd].t = "ptm" /\ c.fds[fd].pty = c.mpty)

\* a child whose image has been replaced by execl
C8_Witness == \E p \in Pids : Running(p) /\ procs[p].image

\* C9: a child that has opened its slave device has opened the slave of the
\* PTY whose master its own spawn call opened.
C9_ChildAttachedToOwnPty ==
    \A p \in Pids : (Running(p) /\ procs[p].pts \in Fds) =>
        procs[p].fds[procs[p].pts].pty = procs[p].mpty

\* C10: every master open in the calling process has been handed to a
\* caller, or belongs to a spawn call that is still running.
C10_NoLeakedMaster ==
    \A fd \in Fds : fdt[fd].t = "ptm" =>
        \/ fdt[fd].idx > 0
        \/ \E t \in Threads : th[t].pc \in {"unlock", "fork"} /\ th[t].ptm = fd
====
